---- MODULE Spec2Model ----
(***************************************************************************)
(* Model of luxafor_ble/const.py: the protocol identifier registry of the  *)
(* Luxafor Dot BLE driver.  Strings are sequences of one-character         *)
(* strings, so that slicing, formatting, parsing and regular-expression    *)
(* matching are computed character by character as Python computes them.   *)
(***************************************************************************)
EXTENDS Integers, Sequences, FiniteSets, TLC

VARIABLES module, members, pc, self, obs, first, inp

vars == <<module, members, pc, self, obs, first, inp>>

(***************************************************************************)
(* Bounds of the model.                                                    *)
(***************************************************************************)
\* number of consumers that use the registry concurrently
NumConsumers == 2
\* longest suffix appended to a 7-character device name
MaxSuffixLen == 3
\* largest raw integer offered to an enumeration's constructor
MaxRaw == 256
\* longest string put before or after a well-formed MAC address
MaxAffixLen == 2

Consumers == 1..NumConsumers

\* Python's None, and the sentinel of a cache lookup that finds nothing
None == [none |-> TRUE]
NOT_FOUND == [not_found |-> TRUE]

(***************************************************************************)
(* Characters.  Ord is Python's ord() on the characters the model uses.    *)
(***************************************************************************)
Ord ==
    ("0" :> 48) @@ ("1" :> 49) @@ ("2" :> 50) @@ ("3" :> 51) @@ ("4" :> 52) @@
    ("5" :> 53) @@ ("6" :> 54) @@ ("7" :> 55) @@ ("8" :> 56) @@ ("9" :> 57) @@
    ("A" :> 65) @@ ("B" :> 66) @@ ("C" :> 67) @@ ("D" :> 68) @@ ("E" :> 69) @@
    ("F" :> 70) @@ ("G" :> 71) @@ ("L" :> 76) @@ ("O" :> 79) @@ ("T" :> 84) @@
    ("U" :> 85) @@ ("X" :> 88) @@
    ("a" :> 97) @@ ("b" :> 98) @@ ("c" :> 99) @@ ("d" :> 100) @@ ("e" :> 101) @@
    ("f" :> 102) @@ ("g" :> 103) @@ ("l" :> 108) @@ ("o" :> 111) @@
    ("t" :> 116) @@ ("u" :> 117) @@ ("x" :> 120) @@
    ("\n" :> 10) @@ (" " :> 32) @@ ("-" :> 45) @@ ("/" :> 47) @@ (":" :> 58) @@
    ("@" :> 64) @@ ("{" :> 123) @@ ("}" :> 125)

\* the digits of format type 'x' and of '%x'
LowerHexDigits ==
    <<"0","1","2","3","4","5","6","7","8","9","a","b","c","d","e","f">>

RECURSIVE Repeat(_, _)
\* Python's  s * n  on sequences
Repeat(s, n) == IF n <= 0 THEN <<>> ELSE s \o Repeat(s, n - 1)

RECURSIVE Concat(_)
\* "".join(parts)
Concat(parts) ==
    IF parts = <<>> THEN <<>> ELSE Head(parts) \o Concat(Tail(parts))

\* Python's slice s[lo:hi] with 0 <= lo, written with 0-based bounds
Slice(s, lo, hi) ==
    LET h == IF hi > Len(s) THEN Len(s) ELSE hi
    IN  IF lo >= h THEN <<>> ELSE SubSeq(s, lo + 1, h)

(***************************************************************************)
(* str.format with the one replacement field of UUID_TEMPLATE.             *)
(***************************************************************************)
RECURSIVE FormatDecimal(_)
\* format type 'd' in place of 'x'
FormatDecimal(n) ==
    IF n < 10 THEN <<LowerHexDigits[n + 1]>>
    ELSE Append(FormatDecimal(n \div 10), LowerHexDigits[(n % 10) + 1])

RECURSIVE FormatHex(_)
\* format type 'x': the lowercase base-16 digits of a non-negative integer
FormatHex(n) ==
    IF n < 16 THEN <<LowerHexDigits[n + 1]>>
    ELSE Append(FormatHex(n \div 16), LowerHexDigits[(n % 16) + 1])

\* fill '0', align '>', width 4: pad on the left, never truncate
PadLeft(s, fill, width) == Repeat(<<fill>>, width - Len(s)) \o s

\* literal text of a format string, and the replacement field {:0>4x}
Text(s) == [kind |-> "text", text |-> s]
Field == [kind |-> "field", fill |-> "0", align |-> ">", width |-> 4, type |-> "x"]

FormatPart(part, value) ==
    IF part.kind = "field"
    THEN PadLeft(FormatHex(value), part.fill, part.width)
    ELSE part.text

\* template.format(value)
Format(template, value) ==
    Concat([i \in 1..Len(template) |-> FormatPart(template[i], value)])

UUID_TEMPLATE ==
    << Text(<<"0","0","0","0">>), Field,
       Text(<<"-","0","0","0","0","-","1","0","0","0","-","8","0","0","0","-">>),
       Text(<<"0","0","8","0","5","f","9","b","3","4","f","b">>) >>

(***************************************************************************)
(* uuid.UUID(hex) and str(UUID).  The 128-bit integer of a UUID is kept as *)
(* its 32 base-16 digit values, most significant first.                    *)
(***************************************************************************)
\* a raised exception, as the value the call ends with
Raise(kind, args) == [error |-> kind, args |-> args]

\* the value int(c, 16) gives one character, -1 for an invalid literal
HexValue(c) ==
    LET o == Ord[c]
    IN  IF o >= 48 /\ o <= 57 THEN o - 48
        ELSE IF o >= 65 /\ o <= 70 THEN o - 55
        ELSE IF o >= 97 /\ o <= 102 THEN o - 87
        ELSE -1

\* str.replace(c, "")
Remove(s, c) == SelectSeq(s, LAMBDA x : x # c)

RECURSIVE LStrip(_, _)
LStrip(s, cs) ==
    IF s # <<>> /\ Head(s) \in cs THEN LStrip(Tail(s), cs) ELSE s

RECURSIVE RStrip(_, _)
RStrip(s, cs) ==
    IF s # <<>> /\ s[Len(s)] \in cs THEN RStrip(SubSeq(s, 1, Len(s) - 1), cs)
    ELSE s

\* UUID(hex): strip braces, drop hyphens, require 32 digits, int(hex, 16)
UUID(hex) ==
    LET h == Remove(RStrip(LStrip(hex, {"{", "}"}), {"{", "}"}), "-")
        digits == [i \in 1..Len(h) |-> HexValue(h[i])]
    IN  IF Len(h) # 32 THEN Raise("ValueError", <<"badly formed UUID">>)
        ELSE IF \E i \in 1..Len(h) : digits[i] < 0
             THEN Raise("ValueError", <<"invalid literal for int()">>)
        ELSE [int |-> digits]

\* str(uuid): '%032x' % int, cut 8-4-4-4-12 and joined with hyphens
UUIDStr(u) ==
    LET hex == [i \in 1..32 |-> LowerHexDigits[u.int[i] + 1]]
    IN  Slice(hex, 0, 8) \o <<"-">> \o Slice(hex, 8, 12) \o <<"-">> \o
        Slice(hex, 12, 16) \o <<"-">> \o Slice(hex, 16, 20) \o <<"-">> \o
        Slice(hex, 20, 32)

(***************************************************************************)
(* re: the compiled pattern of MAC_ADDRESS_REGEX and Pattern.match.  The   *)
(* pattern has no alternation and only counted repetition, so a match      *)
(* attempt is one left-to-right pass.  A position is 1-based; NoMatch is   *)
(* the failed attempt.                                                     *)
(***************************************************************************)
NoMatch == 0

\* ^ : without re.MULTILINE, only the start of the string
AtBeginning(s, pos) == pos = 1

\* $ : without re.MULTILINE, the end of the string or just before the
\* newline that ends the string
AtEnd(s, pos) == pos = Len(s) + 1 \/ (pos = Len(s) /\ s[pos] = "\n")

\* a character class, a set of code point ranges
InClass(c, ranges) ==
    \E i \in 1..Len(ranges) : Ord[c] >= ranges[i][1] /\ Ord[c] <= ranges[i][2]

RECURSIVE MatchSeq(_, _, _)
RECURSIVE MatchTimes(_, _, _, _)

\* one node of the pattern at pos: the position after it, or NoMatch
MatchNode(node, s, pos) ==
    CASE node.t = "bol" -> IF AtBeginning(s, pos) THEN pos ELSE NoMatch
      [] node.t = "eol" -> IF AtEnd(s, pos) THEN pos ELSE NoMatch
      [] node.t = "class" ->
            IF pos <= Len(s) /\ InClass(s[pos], node.ranges)
            THEN pos + 1 ELSE NoMatch
      [] node.t = "lit" ->
            IF pos <= Len(s) /\ s[pos] = node.c THEN pos + 1 ELSE NoMatch
      [] node.t = "times" -> MatchTimes(node.body, node.n, s, pos)
      [] node.t = "group" -> MatchSeq(node.body, s, pos)

MatchSeq(nodes, s, pos) ==
    IF pos = NoMatch \/ nodes = <<>> THEN pos
    ELSE MatchSeq(Tail(nodes), s, MatchNode(Head(nodes), s, pos))

MatchTimes(body, n, s, pos) ==
    IF pos = NoMatch \/ n = 0 THEN pos
    ELSE MatchTimes(body, n - 1, s, MatchSeq(body, s, pos))

\* a match that reads the first character of the string before looking at
\* the string's length
PatternMatchUnguarded(pattern, s) ==
    LET e == MatchSeq(pattern, s, 1)
    IN  IF s = <<>> THEN Raise("IndexError", <<"string index out of range">>)
        ELSE IF e = NoMatch THEN None ELSE [end |-> e - 1]

\* Pattern.match(string): a match that starts at the start of the string;
\* the result is a match object (here its end), or None
PatternMatch(pattern, s) ==
    LET e == MatchSeq(pattern, s, 1)
    IN  IF e = NoMatch THEN None ELSE [end |-> e - 1]

\* [0-9A-Fa-f]
HexClass == [t |-> "class", ranges |-> << <<48, 57>>, <<65, 70>>, <<97, 102>> >>]

\* X{n} and (X)
Times(body, n) == [t |-> "times", n |-> n, body |-> body]
Group(body) == [t |-> "group", body |-> body]

\* ^([0-9A-Fa-f]{2}:){5}([0-9A-Fa-f]{2})$
MAC_ADDRESS_REGEX ==
    << [t |-> "bol"],
       Times(<<Group(<<Times(<<HexClass>>, 2), [t |-> "lit", c |-> ":"]>>)>>, 5),
       Group(<<Times(<<HexClass>>, 2)>>),
       [t |-> "eol"] >>

\* the name with the capitals of the product's name
LUXAFOR_BLUETOOTH_NAMES_Capitalised == << <<"L","u","x"," ","D","o","t">> >>

LUXAFOR_BLUETOOTH_NAMES == << <<"l","u","x"," ","d","o","t">> >>

LUXAFOR_DONT_CARE == 0

(***************************************************************************)
(* The enumerations.  A class body is its (name, value) pairs in the order *)
(* they are declared; EnumClass is what the Enum metaclass builds of it.   *)
(***************************************************************************)
DotCharacteristic ==
    << <<"SERVICE", 4660>>, <<"LED_COMMAND", 4661>>, <<"STATUS", 4662>> >>

LuxaforLED == << <<"LEFT", 1>>, <<"RIGHT", 2>>, <<"ALL", 255>> >>

\* the opcodes numbered without the gap at 0xA5
LuxaforCommandNoGap ==
    << <<"COLOR", 161>>, <<"FADE", 162>>, <<"STROBE", 163>>, <<"WAVE", 164>>,
       <<"PATTERN", 165>> >>

LuxaforCommand ==
    << <<"COLOR", 161>>, <<"FADE", 162>>, <<"STROBE", 163>>, <<"WAVE", 164>>,
       <<"PATTERN", 166>> >>

LuxaforWavePattern ==
    << <<"PATTERN_1", 1>>, <<"PATTERN_2", 2>>, <<"PATTERN_3", 3>>,
       <<"PATTERN_4", 4>>, <<"PATTERN_5", 5>> >>

\* the patterns numbered in the order they are declared
LuxaforPatternByPosition ==
    << <<"PATTERN_POLICE", 1>>, <<"PATTERN_RAINBOW", 2>>,
       <<"PATTERN_STOPLIGHT", 3>>, <<"PATTERN_RANDOM1", 4>>,
       <<"PATTERN_RANDOM2", 5>>, <<"PATTERN_RANDOM3", 6>>,
       <<"PATTERN_RANDOM4", 7>>, <<"PATTERN_RANDOM5", 8>> >>

LuxaforPattern ==
    << <<"PATTERN_POLICE", 5>>, <<"PATTERN_RAINBOW", 8>>,
       <<"PATTERN_STOPLIGHT", 1>>, <<"PATTERN_RANDOM1", 2>>,
       <<"PATTERN_RANDOM2", 3>>, <<"PATTERN_RANDOM3", 4>>,
       <<"PATTERN_RANDOM4", 6>>, <<"PATTERN_RANDOM5", 7>> >>

PushEvent ==
    << <<"MALFORMED", 48>>, <<"OKAY", 49>>, <<"WAKEUP", 50>>, <<"HELLO", 51>> >>

\* a member of an enumeration
Member(cls, name, value) == [cls |-> cls, _name_ |-> name, _value_ |-> value]

\* the class the metaclass builds: _member_map_ by name, and
\* _value2member_map_ by value (the first name declared with a value is
\* the member of that value, a later one its alias)
EnumClass(qualname, body) ==
    LET idx == 1..Len(body)
        firstOf(v) == CHOOSE i \in idx :
                         /\ body[i][2] = v
                         /\ \A j \in idx : body[j][2] = v => i <= j
        canon(i) == Member(qualname, body[firstOf(body[i][2])][1], body[i][2])
    IN  [ __qualname__ |-> qualname,
          _member_names_ |-> [i \in idx |-> body[i][1]],
          _member_map_ |->
              [n \in {body[i][1] : i \in idx} |->
                  canon(CHOOSE i \in idx : body[i][1] = n)],
          _value2member_map_ |->
              [v \in {body[i][2] : i \in idx} |-> canon(firstOf(v))] ]

\* a value that is no member's is taken for the first member
EnumCallDefault(cls, value) ==
    IF value \in DOMAIN cls._value2member_map_
    THEN cls._value2member_map_[value]
    ELSE cls._member_map_[cls._member_names_[1]]

\* cls(value): the member of that value, or ValueError
\* "<value> is not a valid <qualname>"
EnumCall(cls, value) ==
    IF value \in DOMAIN cls._value2member_map_
    THEN cls._value2member_map_[value]
    ELSE Raise("ValueError", <<value, "is not a valid", cls.__qualname__>>)

\* cls.NAME: the member of that name
EnumGetattr(cls, name) == cls._member_map_[name]

\* int(member): an IntEnum member is the integer of its value
IntOf(member) == member._value_

EnumNames ==
    {"LuxaforLED", "LuxaforCommand", "LuxaforWavePattern", "LuxaforPattern",
     "PushEvent"}

\* the module's namespace once the module is imported
ModuleGlobals(is_linux) ==
    [ LUXAFOR_BLUETOOTH_NAMES |-> LUXAFOR_BLUETOOTH_NAMES,
      UUID_TEMPLATE |-> UUID_TEMPLATE,
      MAC_ADDRESS_REGEX |-> MAC_ADDRESS_REGEX,
      LUXAFOR_DONT_CARE |-> LUXAFOR_DONT_CARE,
      IS_LINUX |-> is_linux,
      DotCharacteristic |-> EnumClass("DotCharacteristic", DotCharacteristic),
      LuxaforLED |-> EnumClass("LuxaforLED", LuxaforLED),
      LuxaforCommand |-> EnumClass("LuxaforCommand", LuxaforCommand),
      LuxaforWavePattern |-> EnumClass("LuxaforWavePattern", LuxaforWavePattern),
      LuxaforPattern |-> EnumClass("LuxaforPattern", LuxaforPattern),
      PushEvent |-> EnumClass("PushEvent", PushEvent) ]

\* the names of the DotCharacteristic members
Characteristics == {DotCharacteristic[i][1] : i \in 1..Len(DotCharacteristic)}

\* the __dict__ of each DotCharacteristic member once the class is built
InstanceDicts ==
    [m \in Characteristics |->
        LET i == CHOOSE i \in 1..Len(DotCharacteristic) : DotCharacteristic[i][1] = m
        IN  ("_name_" :> m) @@ ("_value_" :> DotCharacteristic[i][2])]

(***************************************************************************)
(* functools.cached_property on DotCharacteristic.uuid, and __str__.       *)
(***************************************************************************)
\* cache.get(attrname, _NOT_FOUND)
CacheGet(cache, attrname) ==
    IF attrname \in DOMAIN cache THEN cache[attrname] ELSE NOT_FOUND

\* the dictionary replaced by one that holds the cached value alone
CacheSetAlone(cache, attrname, v) == [k \in {attrname} |-> v]

\* cache[attrname] = val
CacheSet(cache, attrname, v) ==
    [k \in DOMAIN cache \cup {attrname} |-> IF k = attrname THEN v ELSE cache[k]]

\* one cache shared by the members of the class
StoreShared(mem, m, attrname, v) ==
    [k \in DOMAIN mem |-> CacheSet(mem[k], attrname, v)]

\* instance.__dict__[attrname] = val: the cache is the dictionary of the
\* member the property is read on
Store(mem, m, attrname, v) == [mem EXCEPT ![m] = CacheSet(mem[m], attrname, v)]

\* the body of DotCharacteristic.uuid: UUID(UUID_TEMPLATE.format(self.value))
uuid(globals, instance) == UUID(Format(globals.UUID_TEMPLATE, instance["_value_"]))

\* what the caller of a finished access receives: the UUID for .uuid, its
\* string form for __str__; a raised exception passes through both
Delivered(how, v) ==
    IF "error" \in DOMAIN v THEN v
    ELSE IF how = "__str__" THEN [str |-> UUIDStr(v)]
    ELSE v

\* the first UUID the accesses to each member returned (a history of the returns)
NoteFirst(f, m, v) == IF f[m] = None THEN [f EXCEPT ![m] = v] ELSE f

Return(t, m, how, v, hit) ==
    /\ obs' = [op |-> how, arg |-> m, result |-> Delivered(how, v), hit |-> hit]
    /\ first' = NoteFirst(first, m, v)
    /\ pc' = [pc EXCEPT ![t] = "idle"]
    /\ self' = [self EXCEPT ![t] = [m |-> "", how |-> ""]]

\* member.uuid, or str(member): cached_property.__get__ reads the cache;
\* a value found is returned, otherwise the function is to be called
Get(t, m, how) ==
    /\ pc[t] = "idle"
    /\ LET v == CacheGet(members[m], "uuid")
       IN  IF v # NOT_FOUND
           THEN Return(t, m, how, v, TRUE) /\ UNCHANGED <<module, members, inp>>
           ELSE /\ pc' = [pc EXCEPT ![t] = "miss"]
                /\ self' = [self EXCEPT ![t] = [m |-> m, how |-> how]]
                /\ UNCHANGED <<module, members, obs, first, inp>>

\* after a miss: val = self.func(instance); cache[attrname] = val;
\* return val.  An exception of the function leaves the cache as it is.
Fill(t) ==
    /\ pc[t] = "miss"
    /\ LET v == uuid(module, members[self[t].m])
       IN  /\ members' =
                IF "error" \in DOMAIN v THEN members
                ELSE Store(members, self[t].m, "uuid", v)
           /\ Return(t, self[t].m, self[t].how, v, FALSE)
    /\ UNCHANGED <<module, inp>>

(***************************************************************************)
(* The two validation predicates and the enumeration lookups, each one     *)
(* step of the consumer that calls it.                                     *)
(***************************************************************************)
\* a returned value
Ok(v) == [value |-> v]

\* name[:7] in LUXAFOR_BLUETOOTH_NAMES
isSupportedDeviceName(globals, name) ==
    Ok(\E i \in 1..Len(globals.LUXAFOR_BLUETOOTH_NAMES) :
          Slice(name, 0, 7) = globals.LUXAFOR_BLUETOOTH_NAMES[i])

\* MAC_ADDRESS_REGEX.match(address) is not None
isValidMacAddress(globals, address) ==
    LET r == PatternMatch(globals.MAC_ADDRESS_REGEX, address)
    IN  IF "error" \in DOMAIN r THEN r ELSE Ok(r # None)

Observe(t, op, arg, result) ==
    /\ pc[t] = "idle"
    /\ obs' = [op |-> op, arg |-> arg, result |-> result, hit |-> FALSE]
    /\ UNCHANGED <<module, members, pc, self, first>>

ValidateName(t, name) ==
    Observe(t, "isSupportedDeviceName", name, isSupportedDeviceName(module, name))

ValidateMac(t, address) ==
    Observe(t, "isValidMacAddress", address, isValidMacAddress(module, address))

\* cls(raw) for one of the enumerations
Construct(t, cls, raw) ==
    Observe(t, "EnumCall", [cls |-> cls, raw |-> raw], EnumCall(module[cls], raw))

\* cls.NAME
Lookup(t, cls, name) ==
    Observe(t, "EnumGetattr", [cls |-> cls, name |-> name],
            EnumGetattr(module[cls], name))

(***************************************************************************)
(* Inputs.                                                                 *)
(***************************************************************************)
\* the first seven characters a device name is built from: at each place
\* the character of "lux dot" or another one
NameChoice ==
    << {"l", "L"}, {"u", "U"}, {"x", "X"}, {" ", "-"}, {"d", "D"}, {"o", "O"},
       {"t", "T"} >>

SuffixChars == {" ", "4", "2"}

RECURSIVE NamesOfLen(_)
\* the names of exactly n characters
NamesOfLen(n) ==
    IF n = 0 THEN {<<>>}
    ELSE {Append(p, c) : p \in NamesOfLen(n - 1),
                         c \in IF n <= 7 THEN NameChoice[n] ELSE SuffixChars}

NameInputs == UNION {NamesOfLen(n) : n \in 0..(7 + MaxSuffixLen)}

\* the two hexadecimal digits offered at each of the twelve digit places
DigitChoice ==
    << {"0", "a"}, {"9", "F"}, {"A", "f"}, {"5", "c"}, {"1", "B"}, {"e", "8"},
       {"0", "a"}, {"9", "F"}, {"A", "f"}, {"5", "c"}, {"1", "B"}, {"e", "8"} >>

RECURSIVE MacsOfGroups(_)
\* the addresses of n groups whose digits are drawn from DigitChoice
MacsOfGroups(n) ==
    IF n = 0 THEN {<<>>}
    ELSE {(IF p = <<>> THEN p ELSE Append(p, ":")) \o <<a, b>> :
             p \in MacsOfGroups(n - 1),
             a \in DigitChoice[((2 * n - 2) % 12) + 1],
             b \in DigitChoice[((2 * n - 1) % 12) + 1]}

WellFormedMacs == MacsOfGroups(6)

BaseMacs ==
    { <<"A","A",":","B","B",":","C","C",":","D","D",":","E","E",":","F","F">>,
      <<"0","1",":","2","3",":","4","5",":","6","7",":","8","9",":","a","b">> }

EditChars == {"0", "f", "G", "g", "/", "@", ":", "-", " ", "\n"}

\* every string one substitution, insertion or deletion away from m
Edits(m) ==
    {[m EXCEPT ![i] = c] : i \in 1..Len(m), c \in EditChars}
    \cup {SubSeq(m, 1, i) \o <<c>> \o SubSeq(m, i + 1, Len(m)) :
             i \in 0..Len(m), c \in EditChars}
    \cup {SubSeq(m, 1, i - 1) \o SubSeq(m, i + 1, Len(m)) : i \in 1..Len(m)}

RECURSIVE Affixes(_)
\* the non-empty strings of at most n characters
Affixes(n) ==
    IF n = 0 THEN {}
    ELSE {<<c>> : c \in EditChars}
         \cup {Append(x, c) : x \in Affixes(n - 1), c \in EditChars}

MacInputs ==
    WellFormedMacs
    \cup UNION {Edits(m) : m \in BaseMacs}
    \cup UNION {MacsOfGroups(n) : n \in {0, 1, 5, 7}}
    \cup UNION {{Slice(m, 0, k) : k \in 0..Len(m)} : m \in BaseMacs}
    \cup {x \o m : x \in Affixes(MaxAffixLen), m \in BaseMacs}
    \cup {m \o x : x \in Affixes(MaxAffixLen), m \in BaseMacs}

RawInputs == (-1)..MaxRaw

\* the member names of an enumeration
MemberNames(cls) ==
    LET names == ModuleGlobals(TRUE)[cls]._member_names_
    IN  {names[i] : i \in 1..Len(names)}

\* what the concurrent consumers call the pure operations with
SomeName == <<"l","u","x"," ","d","o","t"," ","4","2">>

SomeMac ==
    <<"A","A",":","B","B",":","C","C",":","D","D",":","E","E",":","F","F">>

SomeRaw == 49

(***************************************************************************)
(* The registry used by concurrent consumers.                              *)
(***************************************************************************)
NoInput == [op |-> "none"]

Imported ==
    /\ \E is_linux \in BOOLEAN : module = ModuleGlobals(is_linux)
    /\ members = InstanceDicts
    /\ pc = [t \in Consumers |-> "idle"]
    /\ self = [t \in Consumers |-> [m |-> "", how |-> ""]]
    /\ obs = [op |-> "none", arg |-> None, result |-> None, hit |-> FALSE]
    /\ first = [m \in Characteristics |-> None]

Init == Imported /\ inp = NoInput

Next ==
    \E t \in Consumers :
        \/ \E m \in Characteristics : Get(t, m, "uuid")
        \/ \E m \in Characteristics : Get(t, m, "__str__")
        \/ Fill(t)
        \/ ValidateName(t, SomeName) /\ UNCHANGED inp
        \/ ValidateMac(t, SomeMac) /\ UNCHANGED inp
        \/ Construct(t, "PushEvent", SomeRaw) /\ UNCHANGED inp
        \/ Lookup(t, "LuxaforPattern", "PATTERN_RAINBOW") /\ UNCHANGED inp

Spec == Init /\ [][Next]_vars

(***************************************************************************)
(* The pure operations applied by one caller to one input.                 *)
(***************************************************************************)
InitPure ==
    /\ Imported
    /\ \/ \E name \in NameInputs :
             inp = [op |-> "isSupportedDeviceName", arg |-> name]
       \/ \E address \in MacInputs :
             inp = [op |-> "isValidMacAddress", arg |-> address]
       \/ \E cls \in EnumNames, raw \in RawInputs :
             inp = [op |-> "EnumCall", arg |-> [cls |-> cls, raw |-> raw]]
       \/ \E cls \in EnumNames :
             \E name \in MemberNames(cls) :
                inp = [op |-> "EnumGetattr", arg |-> [cls |-> cls, name |-> name]]

ApplyName ==
    /\ inp.op = "isSupportedDeviceName"
    /\ ValidateName(1, inp.arg)
    /\ inp' = NoInput

ApplyMac ==
    /\ inp.op = "isValidMacAddress"
    /\ ValidateMac(1, inp.arg)
    /\ inp' = NoInput

ApplyConstruct ==
    /\ inp.op = "EnumCall"
    /\ Construct(1, inp.arg.cls, inp.arg.raw)
    /\ inp' = NoInput

ApplyLookup ==
    /\ inp.op = "EnumGetattr"
    /\ Lookup(1, inp.arg.cls, inp.arg.name)
    /\ inp' = NoInput

NextPure == ApplyName \/ ApplyMac \/ ApplyConstruct \/ ApplyLookup

SpecPure == InitPure /\ [][NextPure]_vars

(***************************************************************************)
(* Properties.                                                             *)
(***************************************************************************)
HexDigitChars ==
    {"0","1","2","3","4","5","6","7","8","9",
     "a","b","c","d","e","f","A","B","C","D","E","F"}

LowerHexChars ==
    {"0","1","2","3","4","5","6","7","8","9","a","b","c","d","e","f"}

\* the canonical text of a UUID: 8-4-4-4-12 lowercase hexadecimal digits
Canonical(s) ==
    /\ Len(s) = 36
    /\ \A i \in 1..36 :
          IF i \in {9, 14, 19, 24} THEN s[i] = "-" ELSE s[i] \in LowerHexChars

ExpectedText ==
    [ SERVICE |-> <<"0","0","0","0","1","2","3","4","-","0","0","0","0","-","1","0","0","0","-","8","0","0","0","-","0","0","8","0","5","f","9","b","3","4","f","b">>,
      LED_COMMAND |-> <<"0","0","0","0","1","2","3","5","-","0","0","0","0","-","1","0","0","0","-","8","0","0","0","-","0","0","8","0","5","f","9","b","3","4","f","b">>,
      STATUS |-> <<"0","0","0","0","1","2","3","6","-","0","0","0","0","-","1","0","0","0","-","8","0","0","0","-","0","0","8","0","5","f","9","b","3","4","f","b">> ]

\* C1: the string form of the UUID derived for SERVICE (0x1234),
\* LED_COMMAND (0x1235) and STATUS (0x1236) is 00001234-, 00001235- and
\* 00001236-0000-1000-8000-00805f9b34fb, canonical 8-4-4-4-12 lowercase text.
C1_UuidText ==
    /\ Characteristics = {"SERVICE", "LED_COMMAND", "STATUS"}
    /\ members["SERVICE"]["_value_"] = 4660
    /\ members["LED_COMMAND"]["_value_"] = 4661
    /\ members["STATUS"]["_value_"] = 4662
    /\ obs.op = "__str__" =>
          /\ obs.result = [str |-> ExpectedText[obs.arg]]
          /\ Canonical(obs.result.str)

C1_Witness ==
    /\ obs.op = "__str__"
    /\ obs.arg = "STATUS"
    /\ obs.result = [str |-> ExpectedText["STATUS"]]

\* "lux dot" starts the name, compared character by character
StartsWithLuxDot(name) ==
    /\ Len(name) >= 7
    /\ name[1] = "l" /\ name[2] = "u" /\ name[3] = "x" /\ name[4] = " "
    /\ name[5] = "d" /\ name[6] = "o" /\ name[7] = "t"

\* C2: isSupportedDeviceName(name) is true exactly when the first 7
\* characters of name (all of it when shorter) are "lux dot", case-sensitively:
\* "lux dot 42" is accepted; "LUX DOT", "lux d" and "" are rejected.
C2_NamePrefix ==
    obs.op = "isSupportedDeviceName" =>
        /\ obs.result = Ok(StartsWithLuxDot(obs.arg))
        /\ obs.arg = <<"l","u","x"," ","d","o","t"," ","4","2">> => obs.result = Ok(TRUE)
        /\ obs.arg = <<"L","U","X"," ","D","O","T">> => obs.result = Ok(FALSE)
        /\ obs.arg = <<"l","u","x"," ","d">> => obs.result = Ok(FALSE)
        /\ obs.arg = <<>> => obs.result = Ok(FALSE)

C2_Witness ==
    /\ obs.op = "isSupportedDeviceName"
    /\ obs.arg = <<"l","u","x"," ","d","o","t"," ","4","2">>
    /\ obs.result = Ok(TRUE)

\* six groups of two hexadecimal digits separated by single colons
SixGroupsOfTwoHex(s) ==
    /\ Len(s) = 17
    /\ \A i \in 1..17 :
          IF i % 3 = 0 THEN s[i] = ":" ELSE s[i] \in HexDigitChars

\* C3: isValidMacAddress(address) is true for every string of exactly six
\* groups of two hexadecimal digits separated by single colons and false for
\* every other string (a non-hex character in a group, another number of
\* groups, a group not of two digits, another separator).
C3_MacSixGroups ==
    obs.op = "isValidMacAddress" =>
        obs.result = Ok(SixGroupsOfTwoHex(obs.arg))

\* s is a well-formed address with a non-empty string before or after it
AddressWithAffix(s) ==
    \E k \in 1..(Len(s) - 1) :
        \/ SixGroupsOfTwoHex(SubSeq(s, 1, k))
        \/ SixGroupsOfTwoHex(SubSeq(s, k + 1, Len(s)))

\* C4: the pattern is anchored at both ends: a well-formed address with any
\* non-empty string before it or after it (whitespace and a line terminator
\* included) is rejected.
C4_Anchored ==
    (obs.op = "isValidMacAddress" /\ AddressWithAffix(obs.arg)) =>
        obs.result = Ok(FALSE)

\* the closed value set of each enumeration
ClosedSet ==
    [ LuxaforLED |-> {1, 2, 255},
      LuxaforCommand |-> {161, 162, 163, 164, 166},
      LuxaforWavePattern |-> 1..5,
      LuxaforPattern |-> 1..8,
      PushEvent |-> {48, 49, 50, 51} ]

\* C5: constructing a member of Command, LedTarget, WavePattern, Pattern or
\* PushEvent from an integer outside the enumeration's closed set fails with
\* the invalid-code error (Python's ValueError) that carries the value and
\* the enumeration's name; no member is returned in its place.
C5_InvalidCodeRejected ==
    (obs.op = "EnumCall" /\ obs.arg.raw \notin ClosedSet[obs.arg.cls]) =>
        /\ obs.result =
              Raise("ValueError", <<obs.arg.raw, "is not a valid", obs.arg.cls>>)
        /\ "_name_" \notin DOMAIN obs.result

C5_Witness ==
    /\ obs.op = "EnumCall"
    /\ obs.arg = [cls |-> "PushEvent", raw |-> 52]
    /\ obs.result = Raise("ValueError", <<52, "is not a valid", "PushEvent">>)

\* the name of the member of each value
ExpectedName ==
    [ LuxaforLED |-> (1 :> "LEFT") @@ (2 :> "RIGHT") @@ (255 :> "ALL"),
      LuxaforCommand |->
          (161 :> "COLOR") @@ (162 :> "FADE") @@ (163 :> "STROBE") @@
          (164 :> "WAVE") @@ (166 :> "PATTERN"),
      LuxaforWavePattern |->
          (1 :> "PATTERN_1") @@ (2 :> "PATTERN_2") @@ (3 :> "PATTERN_3") @@
          (4 :> "PATTERN_4") @@ (5 :> "PATTERN_5"),
      PushEvent |->
          (48 :> "MALFORMED") @@ (49 :> "OKAY") @@ (50 :> "WAKEUP") @@
          (51 :> "HELLO") ]

\* C6: constructing a member of LedTarget, Command, WavePattern or PushEvent
\* from an integer succeeds exactly for the integers of its closed set
\* (0xA5 is no command) and returns the member of that value, whose integer
\* is the integer given; PushEvent from 0x31 is OKAY.
C6_ConstructClosedSet ==
    (obs.op = "EnumCall" /\ obs.arg.cls \in DOMAIN ExpectedName) =>
        /\ ("_name_" \in DOMAIN obs.result) <=>
              (obs.arg.raw \in ClosedSet[obs.arg.cls])
        /\ "_name_" \in DOMAIN obs.result =>
              /\ obs.result.cls = obs.arg.cls
              /\ obs.result._name_ = ExpectedName[obs.arg.cls][obs.arg.raw]
              /\ IntOf(obs.result) = obs.arg.raw
              /\ obs.result =
                    EnumGetattr(module[obs.arg.cls], obs.result._name_)

C6_Witness ==
    /\ obs.op = "EnumCall"
    /\ obs.arg = [cls |-> "PushEvent", raw |-> 49]
    /\ "_name_" \in DOMAIN obs.result
    /\ obs.result._name_ = "OKAY"
    /\ IntOf(obs.result) = 49

ExpectedPattern ==
    [ PATTERN_STOPLIGHT |-> 1, PATTERN_RANDOM1 |-> 2, PATTERN_RANDOM2 |-> 3,
      PATTERN_RANDOM3 |-> 4, PATTERN_POLICE |-> 5, PATTERN_RANDOM4 |-> 6,
      PATTERN_RANDOM5 |-> 7, PATTERN_RAINBOW |-> 8 ]

\* C7: the Pattern enumeration maps its 8 names one-to-one onto 1..8, not in
\* declaration order: STOPLIGHT=1, RANDOM1=2, RANDOM2=3, RANDOM3=4, POLICE=5,
\* RANDOM4=6, RANDOM5=7, RAINBOW=8; no two names share a code.
C7_PatternTable ==
    LET map == module.LuxaforPattern._member_map_
    IN  /\ DOMAIN map = DOMAIN ExpectedPattern
        /\ \A n \in DOMAIN map : IntOf(map[n]) = ExpectedPattern[n]
        /\ \A n1, n2 \in DOMAIN map : n1 # n2 => IntOf(map[n1]) # IntOf(map[n2])
        /\ {IntOf(map[n]) : n \in DOMAIN map} = 1..8
        /\ IntOf(map["PATTERN_RAINBOW"]) # IntOf(map["PATTERN_STOPLIGHT"])
        /\ \E i \in 1..8 : IntOf(map[module.LuxaforPattern._member_names_[i]]) # i
        /\ (obs.op = "EnumGetattr" /\ obs.arg.cls = "LuxaforPattern") =>
              IntOf(obs.result) = ExpectedPattern[obs.arg.name]

C7_Witness ==
    /\ obs.op = "EnumGetattr"
    /\ obs.arg = [cls |-> "LuxaforPattern", name |-> "PATTERN_RAINBOW"]
    /\ IntOf(obs.result) = 8

\* C8: every access to a member's uuid returns the value the first access to
\* that member returned, whatever accesses to other members come between;
\* the filled cache holds that value, and no two members return one value.
C8_UuidIdempotent ==
    /\ obs.op \in {"uuid", "__str__"} =>
          obs.result = Delivered(obs.op, first[obs.arg])
    /\ \A m \in Characteristics :
          CacheGet(members[m], "uuid") # NOT_FOUND =>
              CacheGet(members[m], "uuid") = first[m]
    /\ \A m1, m2 \in Characteristics :
          (m1 # m2 /\ first[m1] # None) => first[m1] # first[m2]

C8_Witness ==
    /\ obs.op = "uuid"
    /\ obs.hit
    /\ \A m \in Characteristics : first[m] # None

Fresh == ModuleGlobals(TRUE)

\* the UUID a single sequential caller derives for each member
SequentialUuid == [m \in Characteristics |-> uuid(Fresh, InstanceDicts[m])]

\* what a single sequential caller of a freshly imported module gets
Sequential(o) ==
    CASE o.op = "uuid" -> SequentialUuid[o.arg]
      [] o.op = "__str__" -> [str |-> UUIDStr(SequentialUuid[o.arg])]
      [] o.op = "isSupportedDeviceName" -> isSupportedDeviceName(Fresh, o.arg)
      [] o.op = "isValidMacAddress" -> isValidMacAddress(Fresh, o.arg)
      [] o.op = "EnumCall" -> EnumCall(Fresh[o.arg.cls], o.arg.raw)
      [] o.op = "EnumGetattr" -> EnumGetattr(Fresh[o.arg.cls], o.arg.name)
      [] o.op = "none" -> None

\* the step changes nothing of the registry but an empty uuid cache, which
\* it may fill with the member's UUID
ReadOnlyStep ==
    /\ module' = module
    /\ \A m \in Characteristics :
          /\ DOMAIN members[m] \subseteq DOMAIN members'[m]
          /\ \A k \in DOMAIN members[m] : members'[m][k] = members[m][k]
          /\ DOMAIN members'[m] \subseteq DOMAIN members[m] \cup {"uuid"}
          /\ CacheGet(members'[m], "uuid") \in {NOT_FOUND, SequentialUuid[m]}
          /\ CacheGet(members[m], "uuid") # NOT_FOUND => members'[m] = members[m]

\* C10: under every interleaving of the consumers' UUID derivations,
\* enumeration lookups and validations, no step changes the constants, the
\* name prefixes or an enumeration's mapping, the only change of state is a
\* uuid cache going from empty to the member's UUID, and every call returns
\* what a single sequential caller gets for its input.
C10_ReadOnlyShared ==
    [][ReadOnlyStep /\ obs'.result = Sequential(obs')]_vars

\* a consumer that missed the cache is still to fill it while another
\* consumer has filled it and a third call has returned the cached value
C10_Witness ==
    \E t \in Consumers :
        /\ pc[t] = "miss"
        /\ CacheGet(members[self[t].m], "uuid") # NOT_FOUND
        /\ obs.op \in {"uuid", "__str__"}
        /\ obs.arg = self[t].m
        /\ obs.hit

====
